---- MODULE Spec2Model ----
(***************************************************************************)
(* Model of src/tools/colmap_api.cpp: the API operations of namespace      *)
(* colmap, the worker threads they start and wait on, the option values    *)
(* they read and hand to their collaborators, and the filesystem state     *)
(* they test and change.                                                   *)
(*                                                                         *)
(* Strings on which the code computes (lower-casing, substr, concatenation)*)
(* are sequences of one-character strings; strings that are only compared  *)
(* or passed on are TLA+ strings.                                          *)
(***************************************************************************)
EXTENDS Integers, Sequences, FiniteSets, TLC

\* Largest number of reconstructions the mapper thread creates in one run.
MaxReconstructions == 2

EXIT_SUCCESS == "EXIT_SUCCESS"
EXIT_FAILURE == "EXIT_FAILURE"

-----------------------------------------------------------------------------
(* Character strings *)

Upper == <<"A","B","C","D","E","F","G","H","I","J","K","L","M",
           "N","O","P","Q","R","S","T","U","V","W","X","Y","Z">>
Lower == <<"a","b","c","d","e","f","g","h","i","j","k","l","m",
           "n","o","p","q","r","s","t","u","v","w","x","y","z">>

\* ::tolower on one character
LowerChar(c) ==
    IF \E i \in 1..26 : Upper[i] = c
    THEN Lower[CHOOSE i \in 1..26 : Upper[i] = c]
    ELSE c

\* StringToLower(&s): every character lower-cased in place
StringToLower(s) == [i \in 1..Len(s) |-> LowerChar(s[i])]

\* s.find_last_of("."): the last index holding '.', 0 for npos
FindLastOfDot(s) ==
    IF \E i \in 1..Len(s) : s[i] = "."
    THEN CHOOSE i \in 1..Len(s) : s[i] = "." /\ \A j \in (i+1)..Len(s) : s[j] # "."
    ELSE 0

\* s.substr(0, s.find_last_of(".")): npos keeps the whole string
BasePath(s) ==
    IF FindLastOfDot(s) = 0 THEN s ELSE SubSeq(s, 1, FindLastOfDot(s) - 1)

BundleOutSuffix == <<".","b","u","n","d","l","e",".","o","u","t">>
ListTxtSuffix   == <<".","l","i","s","t",".","t","x","t">>
ImagesWrlSuffix == <<".","i","m","a","g","e","s",".","w","r","l">>
PointsWrlSuffix == <<".","p","o","i","n","t","s","3","D",".","w","r","l">>

VisSuffix       == <<".","v","i","s">>

\* A directory path is the sequence of its components; "" is <<>>.
\* JoinPaths(dir, name)
JoinPaths(dir, name) == Append(dir, name)

DecimalDigits == <<"0","1","2","3","4","5","6","7","8","9">>

\* std::to_string(n); the counts converted here stay below 10
to_string(n) == DecimalDigits[n + 1]

-----------------------------------------------------------------------------
(* Camera models and their parameter lists *)

\* Number of parameters of each camera model known to the library
CameraModelNumParams == [SIMPLE_PINHOLE |-> 3, PINHOLE |-> 4]

ExistsCameraModelWithName(m) == m \in DOMAIN CameraModelNumParams

Digits == {"0","1","2","3","4","5","6","7","8","9"}

\* The comma-separated elements of s
RECURSIVE StringSplit(_)
StringSplit(s) ==
    IF \A i \in 1..Len(s) : s[i] # ","
    THEN <<s>>
    ELSE LET k == CHOOSE i \in 1..Len(s) :
                      s[i] = "," /\ \A j \in 1..(i-1) : s[j] # ","
         IN  <<SubSeq(s, 1, k-1)>> \o StringSplit(SubSeq(s, k+1, Len(s)))

IsNumber(e) == Len(e) > 0 /\ \A i \in 1..Len(e) : e[i] \in Digits

SelectNonEmpty(es) == SelectSeq(es, LAMBDA e : Len(e) > 0)

\* CSVToVector<double>: empty elements are skipped, and an element that is
\* not a number makes the whole result empty
CSVToVector(s) ==
    LET elems == SelectNonEmpty(StringSplit(s))
    IN  IF \A i \in 1..Len(elems) : IsNumber(elems[i]) THEN elems ELSE <<>>

CameraModelVerifyParams(m, params) == Len(params) = CameraModelNumParams[m]

\* A verification that also rejects an empty parameter list
VerifyCameraParams_NoSizeTest(camera_model, params) ==
    IF ~ExistsCameraModelWithName(camera_model)
    THEN FALSE
    ELSE CameraModelVerifyParams(camera_model, CSVToVector(params))

\* VerifyCameraParams(camera_model, params)
VerifyCameraParams(camera_model, params) ==
    IF ~ExistsCameraModelWithName(camera_model)
    THEN FALSE
    ELSE LET camera_params == CSVToVector(params)
         IN  IF Len(camera_params) > 0
                  /\ ~CameraModelVerifyParams(camera_model, camera_params)
             THEN FALSE
             ELSE TRUE

-----------------------------------------------------------------------------
(* The environment: text files and directories *)

\* Lines of the text files that exist
TextFiles == [list_txt  |-> <<"a.jpg", "b.jpg">>,
              dup_txt   |-> <<"a.jpg", "a.jpg">>,
              empty_txt |-> <<>>]

ReadTextFileLines(path) == TextFiles[path]

ListPaths == {""} \cup DOMAIN TextFiles

\* Paths that may or may not be directories
DirNames == {<<"in">>, <<"out">>, <<"dense">>}

Range(f) == {f[i] : i \in DOMAIN f}

-----------------------------------------------------------------------------
VARIABLES
    build,      \* [cuda, cgal]: which of CUDA_ENABLED, CGAL_ENABLED are defined
    fs,         \* the directories that exist
    fs0,        \* the directories that existed when the call was made
    pc,         \* position of the calling thread
    op,         \* the API operation called
    opts,       \* the values options.Read(project_path) produced
    ret,        \* the value returned
    calls,      \* collaborator invocations of this call, in order
    worker,     \* state of the Thread object of this call
    numStarts,  \* how often that thread was started
    via,        \* the ways it was started
    rmSize,     \* reconstruction_manager.Size()
    prev_num_reconstructions,
    hasCallback,\* LAST_IMAGE_REG_CALLBACK registered
    cbActive,   \* the callback body is executing on the mapper thread
    unsyncAccess \* the calling thread touched shared state while the worker ran

vars == <<build, fs, fs0, pc, op, opts, ret, calls, worker, numStarts, via,
          rmSize, prev_num_reconstructions, hasCallback, cbActive, unsyncAccess>>

threadVars == <<worker, numStarts, via>>
mapperVars == <<rmSize, prev_num_reconstructions, hasCallback, cbActive, unsyncAccess>>

\* const bool kUseOpenGL
kUseOpenGL == ~build.cuda

Init ==
    /\ build \in [cuda : BOOLEAN, cgal : BOOLEAN]
    /\ fs \in SUBSET DirNames
    /\ fs0 = fs
    /\ pc = "idle"
    /\ op = "none"
    /\ opts = [none |-> TRUE]
    /\ ret = "none"
    /\ calls = <<>>
    /\ worker = "none"
    /\ numStarts = 0
    /\ via = {}
    /\ rmSize = 0
    /\ prev_num_reconstructions = 0
    /\ hasCallback = FALSE
    /\ cbActive = FALSE
    /\ unsyncAccess = FALSE

ExistsDir(path) == path \in fs

\* CreateDirIfNotExists(path)
CreateDirIfNotExists(dirs, path) == dirs \cup {path}

\* One collaborator invocation: the function or constructor, the values
\* handed to it, and for each value the option key it stems from
Call(fn, keys, args) == [fn |-> fn, keys |-> keys, args |-> args]

\* Entry of an operation: remember the operation and what Read() produced
Enter(name, o) ==
    /\ pc = "idle"
    /\ op' = name
    /\ opts' = o
    /\ fs0' = fs

\* return value;
Return(value) ==
    /\ pc' = "returned"
    /\ ret' = value

-----------------------------------------------------------------------------
(* Thread, as the operations use it *)

\* thread.Start()
ThreadStart ==
    /\ worker' = "running"
    /\ numStarts' = numStarts + 1
    /\ via' = via \cup {"Start"}

\* RunThreadWithOpenGLContext(&thread) up to the point where it blocks
RunThreadWithOpenGLContext ==
    /\ worker' = "running"
    /\ numStarts' = numStarts + 1
    /\ via' = via \cup {"OpenGL"}

\* thread.Wait() and RunThreadWithOpenGLContext return once the thread is done
ThreadJoined == worker = "finished"

\* The worker thread runs to its end (any worker but the mapper)
WorkerFinish ==
    /\ worker = "running"
    /\ op # "ReconstructSparse"
    /\ worker' = "finished"
    /\ UNCHANGED <<build, fs, fs0, pc, op, opts, ret, calls, numStarts, via, mapperVars>>

-----------------------------------------------------------------------------
(* ExtractFeatures *)

ExtractFeaturesOptions ==
    [database_path : {"db"},
     image_path : {"images"},
     features_image_list_path : ListPaths,
     camera_model : {"SIMPLE_PINHOLE", "PINHOLE", "BOGUS"},
     camera_params : {<<>>, <<"1",",","2",",","3">>,
                      <<"1",",","2",",","3",",","4">>, <<"f","x">>},
     sift_extraction : [use_gpu : BOOLEAN]]

\* Everything up to the construction of the feature extractor
ExtractFeatures_Call(o) ==
    /\ Enter("ExtractFeatures", o)
    /\ LET image_list ==
               IF o.features_image_list_path # ""
               THEN ReadTextFileLines(o.features_image_list_path)
               ELSE <<>>
       IN  IF o.features_image_list_path # "" /\ image_list = <<>>
           THEN /\ Return(EXIT_SUCCESS)
                /\ UNCHANGED <<calls, worker>>
           ELSE IF ~VerifyCameraParams(o.camera_model, o.camera_params)
           THEN /\ Return(EXIT_FAILURE)
                /\ UNCHANGED <<calls, worker>>
           ELSE /\ calls' = Append(calls,
                        Call("SiftFeatureExtractor",
                             <<"database_path", "image_path", "image_list",
                               "camera_model", "camera_params", "sift_extraction">>,
                             <<o.database_path, o.image_path, image_list,
                               o.camera_model, o.camera_params, o.sift_extraction>>))
                /\ worker' = "created"
                /\ pc' = "ef_run"
                /\ ret' = ret
    /\ UNCHANGED <<build, fs, numStarts, via, mapperVars>>

\* The two ways of running the extractor without the else between them
ExtractFeatures_Run_NoElse ==
    /\ pc = "ef_run"
    /\ worker' = "running"
    /\ IF opts.sift_extraction.use_gpu /\ kUseOpenGL
       THEN numStarts' = numStarts + 2 /\ via' = via \cup {"OpenGL", "Start"}
       ELSE numStarts' = numStarts + 1 /\ via' = via \cup {"Start"}
    /\ pc' = "ef_wait"
    /\ UNCHANGED <<build, fs, fs0, op, opts, ret, calls, mapperVars>>

\* if (use_gpu && kUseOpenGL) RunThreadWithOpenGLContext else Start
ExtractFeatures_Run ==
    /\ pc = "ef_run"
    /\ IF opts.sift_extraction.use_gpu /\ kUseOpenGL
       THEN RunThreadWithOpenGLContext
       ELSE ThreadStart
    /\ pc' = "ef_wait"
    /\ UNCHANGED <<build, fs, fs0, op, opts, ret, calls, mapperVars>>

\* Wait() (or the OpenGL runner) returns; return EXIT_SUCCESS
ExtractFeatures_Return ==
    /\ pc = "ef_wait"
    /\ ThreadJoined
    /\ Return(EXIT_SUCCESS)
    /\ UNCHANGED <<build, fs, fs0, op, opts, calls, threadVars, mapperVars>>

-----------------------------------------------------------------------------
(* MatchFeaturesExhaustively *)

MatchFeaturesOptions ==
    [database_path : {"db"},
     exhaustive_matching : [block_size : {50}],
     sift_matching : [use_gpu : BOOLEAN]]

MatchFeaturesExhaustively_Call(o) ==
    /\ Enter("MatchFeaturesExhaustively", o)
    /\ calls' = Append(calls,
           Call("ExhaustiveFeatureMatcher",
                <<"exhaustive_matching", "sift_matching", "database_path">>,
                <<o.exhaustive_matching, o.sift_matching, o.database_path>>))
    /\ worker' = "created"
    /\ pc' = "mf_run"
    /\ UNCHANGED <<build, fs, ret, numStarts, via, mapperVars>>

MatchFeaturesExhaustively_Run ==
    /\ pc = "mf_run"
    /\ IF opts.sift_matching.use_gpu /\ kUseOpenGL
       THEN RunThreadWithOpenGLContext
       ELSE ThreadStart
    /\ pc' = "mf_wait"
    /\ UNCHANGED <<build, fs, fs0, op, opts, ret, calls, mapperVars>>

MatchFeaturesExhaustively_Return ==
    /\ pc = "mf_wait"
    /\ ThreadJoined
    /\ Return(EXIT_SUCCESS)
    /\ UNCHANGED <<build, fs, fs0, op, opts, calls, threadVars, mapperVars>>

-----------------------------------------------------------------------------
(* ReconstructSparse *)

ReconstructSparseOptions ==
    [database_path : {"db"},
     image_path : {"images"},
     mapper_input_path : {<<>>, <<"in">>},
     mapper_output_path : {<<>>, <<"out">>},
     mapper_image_list_path : ListPaths,
     mapper : [min_num_matches : {15}]]

\* From the image list to the registration of the callback
ReconstructSparse_Prepare(o) ==
            LET image_names ==
                    IF o.mapper_image_list_path # ""
                    THEN Range(ReadTextFileLines(o.mapper_image_list_path))
                    ELSE {}
                construct ==
                    Call("IncrementalMapperController",
                         <<"mapper", "image_names", "image_path", "database_path">>,
                         <<o.mapper, image_names, o.image_path, o.database_path>>)
            IN  IF o.mapper_input_path # <<>>
                THEN IF ~ExistsDir(o.mapper_input_path)
                     THEN /\ Return(EXIT_FAILURE)
                          /\ UNCHANGED <<calls, worker, rmSize, hasCallback>>
                     ELSE \* reconstruction_manager.Read finds any number of models
                          /\ \E n \in 0..1 : rmSize' = n
                          /\ calls' = calls \o
                                <<Call("ReconstructionManager.Read",
                                       <<"mapper_input_path">>, <<o.mapper_input_path>>),
                                  construct>>
                          /\ hasCallback' = FALSE
                          /\ worker' = "created"
                          /\ pc' = "rs_start"
                          /\ ret' = ret
                ELSE /\ rmSize' = 0
                     /\ calls' = Append(calls, construct)
                     /\ hasCallback' = TRUE
                     /\ worker' = "created"
                     /\ pc' = "rs_start"
                     /\ ret' = ret

\* An operation that does not test the output directory
ReconstructSparse_Call_NoOutputCheck(o) ==
    /\ Enter("ReconstructSparse", o)
    /\ ReconstructSparse_Prepare(o)
    /\ prev_num_reconstructions' = 0
    /\ unsyncAccess' = (unsyncAccess \/ worker = "running")
    /\ UNCHANGED <<build, fs, numStarts, via, cbActive>>

\* Everything up to the registration of the callback
ReconstructSparse_Call(o) ==
    /\ Enter("ReconstructSparse", o)
    /\ IF ~ExistsDir(o.mapper_output_path)
       THEN /\ Return(EXIT_FAILURE)
            /\ UNCHANGED <<calls, worker, rmSize, hasCallback>>
       ELSE ReconstructSparse_Prepare(o)
    /\ prev_num_reconstructions' = 0
    /\ unsyncAccess' = (unsyncAccess \/ worker = "running")
    /\ UNCHANGED <<build, fs, numStarts, via, cbActive>>

\* mapper.Start()
ReconstructSparse_Start ==
    /\ pc = "rs_start"
    /\ ThreadStart
    /\ pc' = "rs_wait"
    /\ UNCHANGED <<build, fs, fs0, op, opts, ret, calls, mapperVars>>

\* A calling thread that goes on without waiting for the mapper
ReconstructSparse_Wait_NoJoin ==
    /\ pc = "rs_wait"
    /\ pc' = "rs_post"
    /\ UNCHANGED <<build, fs, fs0, op, opts, ret, calls, threadVars, mapperVars>>

\* mapper.Wait() returns
ReconstructSparse_Wait ==
    /\ pc = "rs_wait"
    /\ ThreadJoined
    /\ pc' = "rs_post"
    /\ UNCHANGED <<build, fs, fs0, op, opts, ret, calls, threadVars, mapperVars>>

\* The code after Wait(): write the first reconstruction, return
ReconstructSparse_Finish ==
    /\ pc = "rs_post"
    /\ unsyncAccess' = (unsyncAccess \/ worker = "running")
    /\ IF opts.mapper_input_path # <<>> /\ rmSize > 0
       THEN calls' = Append(calls,
                Call("Reconstruction.Write",
                     <<"mapper_output_path">>, <<opts.mapper_output_path>>))
       ELSE calls' = calls
    /\ Return(EXIT_SUCCESS)
    /\ UNCHANGED <<build, fs, fs0, op, opts, threadVars,
                   rmSize, prev_num_reconstructions, hasCallback, cbActive>>

\* The mapper thread begins another reconstruction
Mapper_AddReconstruction ==
    /\ op = "ReconstructSparse"
    /\ worker = "running"
    /\ ~cbActive
    /\ rmSize < MaxReconstructions
    /\ rmSize' = rmSize + 1
    /\ UNCHANGED <<build, fs, fs0, pc, op, opts, ret, calls, threadVars,
                   prev_num_reconstructions, hasCallback, cbActive, unsyncAccess>>

\* The mapper thread fires LAST_IMAGE_REG_CALLBACK: the lambda is entered
Mapper_CallbackBegin ==
    /\ op = "ReconstructSparse"
    /\ worker = "running"
    /\ hasCallback
    /\ ~cbActive
    /\ cbActive' = TRUE
    /\ UNCHANGED <<build, fs, fs0, pc, op, opts, ret, calls, threadVars,
                   rmSize, prev_num_reconstructions, hasCallback, unsyncAccess>>

\* The body of the lambda
Mapper_CallbackEnd ==
    /\ cbActive
    /\ IF rmSize > prev_num_reconstructions
       THEN LET reconstruction_path ==
                    JoinPaths(opts.mapper_output_path,
                              to_string(prev_num_reconstructions))
            IN  /\ fs' = CreateDirIfNotExists(fs, reconstruction_path)
                /\ calls' = calls \o
                      <<Call("Reconstruction.Write",
                             <<"mapper_output_path">>, <<reconstruction_path>>),
                        Call("OptionManager.Write",
                             <<"mapper_output_path">>,
                             <<JoinPaths(reconstruction_path, "project.ini")>>)>>
                /\ prev_num_reconstructions' = rmSize
       ELSE UNCHANGED <<fs, calls, prev_num_reconstructions>>
    /\ cbActive' = FALSE
    /\ UNCHANGED <<build, fs0, pc, op, opts, ret, threadVars,
                   rmSize, hasCallback, unsyncAccess>>

\* The mapper thread ends
Mapper_Finish ==
    /\ op = "ReconstructSparse"
    /\ worker = "running"
    /\ ~cbActive
    /\ worker' = "finished"
    /\ UNCHANGED <<build, fs, fs0, pc, op, opts, ret, calls, numStarts, via, mapperVars>>

-----------------------------------------------------------------------------
(* ConvertModel *)

OutputTypes ==
    {<<"B","I","N">>, <<"b","i","n">>, <<"B","i","n">>,
     <<"T","X","T">>, <<"t","x","T">>,
     <<"N","V","M">>, <<"n","v","m">>,
     <<"B","u","n","d","l","e","r">>, <<"B","U","N","D","L","E","R">>,
     <<"b","u","n","d","l","e","r">>,
     <<"V","R","M","L">>, <<"v","r","m","l">>, <<"V","r","m","L">>,
     <<"P","L","Y">>, <<"p","l","y">>,
     <<>>, <<"b","i">>, <<"b","i","n","x">>, <<"O","B","J">>, <<"p","l","y"," ">>,
     <<"C","O","L","M","A","P">>}

ConvertModelOptions ==
    [converter_input_path : {"sparse0", "sparse1"},
     converter_output_path : {<<"m">>, <<"m",".","w","r","l">>, <<"a",".","b",".","c">>},
     converter_output_type : OutputTypes]

\* An exporter call on the reconstruction read from `source`
Export(fn, source, paths) ==
    [fn |-> fn, keys |-> [i \in 1..Len(paths) |-> "converter_output_path"],
     args |-> paths, reconstruction |-> source]

\* The if / else-if chain on the output type
ConvertModel_Dispatch(o, converter_output_type) ==
    /\ LET read == Call("Reconstruction.Read",
                        <<"converter_input_path">>, <<o.converter_input_path>>)
           reconstruction == o.converter_input_path
           converter_output_path == o.converter_output_path
           base_path == BasePath(converter_output_path)
       IN  IF converter_output_type = <<"b","i","n">>
           THEN /\ calls' = calls \o <<read,
                       Export("WriteBinary", reconstruction, <<converter_output_path>>)>>
                /\ Return(EXIT_SUCCESS)
           ELSE IF converter_output_type = <<"t","x","t">>
           THEN /\ calls' = calls \o <<read,
                       Export("WriteText", reconstruction, <<converter_output_path>>)>>
                /\ Return(EXIT_SUCCESS)
           ELSE IF converter_output_type = <<"n","v","m">>
           THEN /\ calls' = calls \o <<read,
                       Export("ExportNVM", reconstruction, <<converter_output_path>>)>>
                /\ Return(EXIT_SUCCESS)
           ELSE IF converter_output_type = <<"b","u","n","d","l","e","r">>
           THEN /\ calls' = calls \o <<read,
                       Export("ExportBundler", reconstruction,
                              <<converter_output_path \o BundleOutSuffix,
                                converter_output_path \o ListTxtSuffix>>)>>
                /\ Return(EXIT_SUCCESS)
           ELSE IF converter_output_type = <<"p","l","y">>
           THEN /\ calls' = calls \o <<read,
                       Export("ExportPLY", reconstruction, <<converter_output_path>>)>>
                /\ Return(EXIT_SUCCESS)
           ELSE IF converter_output_type = <<"v","r","m","l">>
           THEN \* the constants 1 and Vector3d(1, 0, 0) are no option values
                /\ calls' = calls \o <<read,
                       Export("ExportVRML", reconstruction,
                              <<base_path \o ImagesWrlSuffix,
                                base_path \o PointsWrlSuffix>>)>>
                /\ Return(EXIT_SUCCESS)
           ELSE /\ calls' = Append(calls, read)
                /\ Return(EXIT_FAILURE)

\* A conversion that compares the output type as it was read
ConvertModel_NoLower(o) ==
    /\ Enter("ConvertModel", o)
    /\ ConvertModel_Dispatch(o, o.converter_output_type)
    /\ UNCHANGED <<build, fs, threadVars, mapperVars>>

ConvertModel(o) ==
    /\ Enter("ConvertModel", o)
    /\ ConvertModel_Dispatch(o, StringToLower(o.converter_output_type))
    /\ UNCHANGED <<build, fs, threadVars, mapperVars>>

-----------------------------------------------------------------------------
(* UndistortImages *)

UndistortImagesOptions ==
    [image_path : {"images"},
     model_input_path : {"sparse0"},
     undistorter_output_path : {<<"dense">>, <<"out">>},
     undistorter_output_type : {"COLMAP", "PMVS", "CMP-MVS",
                                "colmap", "Pmvs", "CMP_MVS", "", "MVE"},
     undistort_camera_options : [blank_pixels : {0}, min_scale : {2},
                                 max_scale : {20}, max_image_size : {-1, 1000}]]

\* The if / else-if chain that constructs the undistorter
UndistortImages_Dispatch(o, undistorter_output_type) ==
    /\ LET read == Call("Reconstruction.Read",
                        <<"model_input_path">>, <<o.model_input_path>>)
           Undistorter(class) ==
               Call(class,
                    <<"undistort_camera_options", "image_path",
                      "undistorter_output_path">>,
                    <<o.undistort_camera_options, o.image_path,
                      o.undistorter_output_path>>)
           Construct(class) ==
               /\ calls' = calls \o <<read, Undistorter(class)>>
               /\ worker' = "created"
               /\ pc' = "ui_start"
               /\ ret' = ret
       IN  IF undistorter_output_type = "COLMAP"
           THEN Construct("COLMAPUndistorter")
           ELSE IF undistorter_output_type = "PMVS"
           THEN Construct("PMVSUndistorter")
           ELSE IF undistorter_output_type = "CMP-MVS"
           THEN Construct("CMPMVSUndistorter")
           ELSE /\ calls' = Append(calls, read)
                /\ worker' = worker
                /\ Return(EXIT_FAILURE)

\* An operation that never looks at the output type that was read
UndistortImages_Call_DefaultType(o) ==
    /\ Enter("UndistortImages", o)
    /\ fs' = CreateDirIfNotExists(fs, o.undistorter_output_path)
    /\ UndistortImages_Dispatch(o, "COLMAP")
    /\ UNCHANGED <<build, numStarts, via, mapperVars>>

\* Everything up to the construction of the undistorter
UndistortImages_Call(o) ==
    /\ Enter("UndistortImages", o)
    /\ fs' = CreateDirIfNotExists(fs, o.undistorter_output_path)
    /\ UndistortImages_Dispatch(o, o.undistorter_output_type)
    /\ UNCHANGED <<build, numStarts, via, mapperVars>>

\* undistorter->Start()
UndistortImages_Start ==
    /\ pc = "ui_start"
    /\ ThreadStart
    /\ pc' = "ui_wait"
    /\ UNCHANGED <<build, fs, fs0, op, opts, ret, calls, mapperVars>>

\* undistorter->Wait() returns; return EXIT_SUCCESS
UndistortImages_Return ==
    /\ pc = "ui_wait"
    /\ ThreadJoined
    /\ Return(EXIT_SUCCESS)
    /\ UNCHANGED <<build, fs, fs0, op, opts, calls, threadVars, mapperVars>>

-----------------------------------------------------------------------------
(* CreateDatabase *)

CreateDatabaseOptions == [database_path : {"db", "other.db"}]

\* An operation that reads the options and opens nothing
CreateDatabase_NoDatabase(o) ==
    /\ Enter("CreateDatabase", o)
    /\ calls' = calls
    /\ Return(EXIT_SUCCESS)
    /\ UNCHANGED <<build, fs, threadVars, mapperVars>>

CreateDatabase(o) ==
    /\ Enter("CreateDatabase", o)
    /\ calls' = Append(calls, Call("Database", <<"database_path">>, <<o.database_path>>))
    /\ Return(EXIT_SUCCESS)
    /\ UNCHANGED <<build, fs, threadVars, mapperVars>>

-----------------------------------------------------------------------------
(* PatchMatchStereo *)

WorkspaceFormats ==
    {<<"C","O","L","M","A","P">>, <<"c","o","l","m","a","p">>,
     <<"P","M","V","S">>, <<"P","m","v","s">>, <<"M","V","E">>}

PatchMatchStereoOptions ==
    [dense_workspace_path : {"dense"},
     dense_workspace_format : WorkspaceFormats,
     pmvs_option_name : {"option-all"},
     patch_match_stereo : [max_image_size : {-1}]]

PatchMatchStereo_Call(o) ==
    /\ Enter("PatchMatchStereo", o)
    /\ IF ~build.cuda
       THEN /\ Return(EXIT_FAILURE)
            /\ UNCHANGED <<calls, worker>>
       ELSE LET dense_workspace_format == StringToLower(o.dense_workspace_format)
            IN  IF /\ dense_workspace_format # <<"c","o","l","m","a","p">>
                   /\ dense_workspace_format # <<"p","m","v","s">>
                THEN /\ Return(EXIT_FAILURE)
                     /\ UNCHANGED <<calls, worker>>
                ELSE /\ calls' = Append(calls,
                            Call("PatchMatchController",
                                 <<"patch_match_stereo", "dense_workspace_path",
                                   "dense_workspace_format", "pmvs_option_name">>,
                                 <<o.patch_match_stereo, o.dense_workspace_path,
                                   dense_workspace_format, o.pmvs_option_name>>))
                     /\ worker' = "created"
                     /\ pc' = "pms_start"
                     /\ ret' = ret
    /\ UNCHANGED <<build, fs, numStarts, via, mapperVars>>

PatchMatchStereo_Start ==
    /\ pc = "pms_start"
    /\ ThreadStart
    /\ pc' = "pms_wait"
    /\ UNCHANGED <<build, fs, fs0, op, opts, ret, calls, mapperVars>>

PatchMatchStereo_Return ==
    /\ pc = "pms_wait"
    /\ ThreadJoined
    /\ Return(EXIT_SUCCESS)
    /\ UNCHANGED <<build, fs, fs0, op, opts, calls, threadVars, mapperVars>>

-----------------------------------------------------------------------------
(* StereoFuser *)

InputTypes ==
    {<<"g","e","o","m","e","t","r","i","c">>, <<"G","e","o","m","e","t","r","i","c">>,
     <<"p","h","o","t","o","m","e","t","r","i","c">>,
     <<"P","H","O","T","O","M","E","T","R","I","C">>, <<"r","g","b">>}

StereoFuserOptions ==
    [dense_workspace_path : {"dense"},
     workspace_format : WorkspaceFormats,
     pmvs_option_name : {"option-all"},
     input_type : InputTypes,
     dense_output_path : {<<"f",".","p","l","y">>},
     stereo_fusion : [min_num_pixels : {5}]]

StereoFuser_Call(o) ==
    /\ Enter("StereoFuser", o)
    /\ LET workspace_format == StringToLower(o.workspace_format)
           input_type == StringToLower(o.input_type)
       IN  IF /\ workspace_format # <<"c","o","l","m","a","p">>
              /\ workspace_format # <<"p","m","v","s">>
           THEN /\ Return(EXIT_FAILURE)
                /\ UNCHANGED <<calls, worker>>
           ELSE IF /\ input_type # <<"p","h","o","t","o","m","e","t","r","i","c">>
                   /\ input_type # <<"g","e","o","m","e","t","r","i","c">>
           THEN /\ Return(EXIT_FAILURE)
                /\ UNCHANGED <<calls, worker>>
           ELSE /\ calls' = Append(calls,
                       Call("StereoFusion",
                            <<"stereo_fusion", "dense_workspace_path",
                              "workspace_format", "pmvs_option_name", "input_type">>,
                            <<o.stereo_fusion, o.dense_workspace_path,
                              workspace_format, o.pmvs_option_name, input_type>>))
                /\ worker' = "created"
                /\ pc' = "sf_start"
                /\ ret' = ret
    /\ UNCHANGED <<build, fs, numStarts, via, mapperVars>>

StereoFuser_Start ==
    /\ pc = "sf_start"
    /\ ThreadStart
    /\ pc' = "sf_wait"
    /\ UNCHANGED <<build, fs, fs0, op, opts, ret, calls, mapperVars>>

\* A fuser that writes the visibility over the points file
StereoFuser_Return_NoVis ==
    /\ pc = "sf_wait"
    /\ ThreadJoined
    /\ calls' = calls \o
          <<Call("WriteBinaryPlyPoints",
                 <<"dense_output_path">>, <<opts.dense_output_path>>),
            Call("WritePointsVisibility",
                 <<"dense_output_path">>, <<opts.dense_output_path>>)>>
    /\ Return(EXIT_SUCCESS)
    /\ UNCHANGED <<build, fs, fs0, op, opts, threadVars, mapperVars>>

\* fuser.Wait() returns; the fused points are written; return EXIT_SUCCESS
StereoFuser_Return ==
    /\ pc = "sf_wait"
    /\ ThreadJoined
    /\ calls' = calls \o
          <<Call("WriteBinaryPlyPoints",
                 <<"dense_output_path">>, <<opts.dense_output_path>>),
            Call("WritePointsVisibility",
                 <<"dense_output_path">>, <<opts.dense_output_path \o VisSuffix>>)>>
    /\ Return(EXIT_SUCCESS)
    /\ UNCHANGED <<build, fs, fs0, op, opts, threadVars, mapperVars>>

-----------------------------------------------------------------------------
(* PoissonMesher, DelaunayMesher *)

PoissonMesherOptions ==
    [poisson_input_path : {"fused.ply"},
     possion_output_path : {"mesh.ply"},
     poisson_meshing : [depth : {13}]]

\* CHECK(mvs::PoissonMeshing(...)) ends the process when the meshing fails
PoissonMesher(o) ==
    /\ Enter("PoissonMesher", o)
    /\ calls' = Append(calls,
           Call("PoissonMeshing",
                <<"poisson_meshing", "poisson_input_path", "possion_output_path">>,
                <<o.poisson_meshing, o.poisson_input_path, o.possion_output_path>>))
    /\ \E ok \in BOOLEAN :
          IF ok THEN Return(EXIT_SUCCESS)
                ELSE pc' = "aborted" /\ ret' = ret
    /\ UNCHANGED <<build, fs, threadVars, mapperVars>>

DelaunayInputTypes ==
    {<<"d","e","n","s","e">>, <<"D","e","n","s","e">>,
     <<"s","p","a","r","s","e">>, <<"S","P","A","R","S","E">>, <<"m","e","s","h">>}

DelaunayMesherOptions ==
    [delaunay_input_path : {"dense"},
     delaunay_input_type : DelaunayInputTypes,
     delaunay_output_path : {"mesh.ply"},
     delaunay_meshing : [max_proj_dist : {20}]]

DelaunayMesher(o) ==
    /\ Enter("DelaunayMesher", o)
    /\ IF ~build.cgal
       THEN /\ Return(EXIT_FAILURE)
            /\ calls' = calls
       ELSE LET delaunay_input_type == StringToLower(o.delaunay_input_type)
                Meshing(fn) ==
                    Call(fn,
                         <<"delaunay_meshing", "delaunay_input_path",
                           "delaunay_output_path">>,
                         <<o.delaunay_meshing, o.delaunay_input_path,
                           o.delaunay_output_path>>)
            IN  IF delaunay_input_type = <<"s","p","a","r","s","e">>
                THEN /\ calls' = Append(calls, Meshing("SparseDelaunayMeshing"))
                     /\ Return(EXIT_SUCCESS)
                ELSE IF delaunay_input_type = <<"d","e","n","s","e">>
                THEN /\ calls' = Append(calls, Meshing("DenseDelaunayMeshing"))
                     /\ Return(EXIT_SUCCESS)
                ELSE /\ calls' = calls
                     /\ Return(EXIT_FAILURE)
    /\ UNCHANGED <<build, fs, threadVars, mapperVars>>

-----------------------------------------------------------------------------
Next ==
    \/ \E o \in ExtractFeaturesOptions : ExtractFeatures_Call(o)
    \/ ExtractFeatures_Run
    \/ ExtractFeatures_Return
    \/ \E o \in MatchFeaturesOptions : MatchFeaturesExhaustively_Call(o)
    \/ MatchFeaturesExhaustively_Run
    \/ MatchFeaturesExhaustively_Return
    \/ \E o \in ReconstructSparseOptions : ReconstructSparse_Call(o)
    \/ ReconstructSparse_Start
    \/ ReconstructSparse_Wait
    \/ ReconstructSparse_Finish
    \/ Mapper_AddReconstruction
    \/ Mapper_CallbackBegin
    \/ Mapper_CallbackEnd
    \/ Mapper_Finish
    \/ \E o \in ConvertModelOptions : ConvertModel(o)
    \/ \E o \in UndistortImagesOptions : UndistortImages_Call(o)
    \/ UndistortImages_Start
    \/ UndistortImages_Return
    \/ \E o \in CreateDatabaseOptions : CreateDatabase(o)
    \/ \E o \in PatchMatchStereoOptions : PatchMatchStereo_Call(o)
    \/ PatchMatchStereo_Start
    \/ PatchMatchStereo_Return
    \/ \E o \in StereoFuserOptions : StereoFuser_Call(o)
    \/ StereoFuser_Start
    \/ StereoFuser_Return
    \/ \E o \in PoissonMesherOptions : PoissonMesher(o)
    \/ \E o \in DelaunayMesherOptions : DelaunayMesher(o)
    \/ WorkerFinish

Spec == Init /\ [][Next]_vars

-----------------------------------------------------------------------------
(* Vocabulary of the properties *)

HasCall(fns) == \E i \in 1..Len(calls) : calls[i].fn \in fns

NumCalls(fns) == Cardinality({i \in 1..Len(calls) : calls[i].fn \in fns})

Exporters == {"WriteBinary", "WriteText", "ExportNVM", "ExportBundler",
              "ExportVRML", "ExportPLY"}

Undistorters == {"COLMAPUndistorter", "PMVSUndistorter", "CMPMVSUndistorter"}

WorkerOperations == {"ExtractFeatures", "MatchFeaturesExhaustively",
                     "ReconstructSparse", "UndistortImages",
                     "PatchMatchStereo", "StereoFuser"}

\* Two characters that differ at most in their case
CaseEq(c, d) == c = d \/ \E i \in 1..26 : {c, d} = {Upper[i], Lower[i]}

\* s is t in some letter case
CaseVariant(s, t) ==
    Len(s) = Len(t) /\ \A i \in 1..Len(s) : CaseEq(s[i], t[i])

\* l is s with every upper-case letter replaced by its lower-case letter
IsLowerCased(l, s) ==
    /\ CaseVariant(l, s)
    /\ \A i \in 1..Len(l) : l[i] \notin Range(Upper)

Returned == pc = "returned"

-----------------------------------------------------------------------------
\* C1: in every operation that runs a worker the worker is started at most
\* once per call, by Start() or by RunThreadWithOpenGLContext and never by
\* both, only the six worker operations start one, and no operation has
\* returned while its worker is still running.
C1_StartedOnceAndWaitedOn ==
    /\ numStarts <= 1
    /\ via \in {{}, {"Start"}, {"OpenGL"}}
    /\ numStarts = 1 => op \in WorkerOperations
    /\ Returned => worker # "running"
    /\ (Returned /\ numStarts = 1) => worker = "finished"

\* ExtractFeatures has returned after running its extractor through
\* RunThreadWithOpenGLContext
C1_Witness ==
    /\ Returned
    /\ op = "ExtractFeatures"
    /\ via = {"OpenGL"}
    /\ numStarts = 1
    /\ worker = "finished"

-----------------------------------------------------------------------------
\* The collaborator of each of the six operations of colmap_api.h was used
CollaboratorInvoked ==
    CASE op = "ExtractFeatures" ->
             HasCall({"SiftFeatureExtractor"}) /\ numStarts >= 1
      [] op = "MatchFeaturesExhaustively" ->
             HasCall({"ExhaustiveFeatureMatcher"}) /\ numStarts >= 1
      [] op = "ReconstructSparse" ->
             HasCall({"IncrementalMapperController"}) /\ numStarts >= 1
      [] op = "ConvertModel" -> HasCall(Exporters)
      [] op = "UndistortImages" -> HasCall(Undistorters) /\ numStarts >= 1
      [] op = "CreateDatabase" -> HasCall({"Database"})
      [] OTHER -> TRUE

HeaderOperations == {"ExtractFeatures", "MatchFeaturesExhaustively",
                     "ReconstructSparse", "ConvertModel", "UndistortImages",
                     "CreateDatabase"}

\* ExtractFeatures was given an image list file without lines
EmptyImageList ==
    /\ op = "ExtractFeatures"
    /\ opts.features_image_list_path # ""
    /\ TextFiles[opts.features_image_list_path] = <<>>

\* C2 as stated: whenever one of the six operations returns EXIT_SUCCESS its
\* collaborator was invoked during the call.
C2_Original ==
    (Returned /\ op \in HeaderOperations /\ ret = EXIT_SUCCESS)
        => CollaboratorInvoked

\* C2 as amended: whenever one of the six operations returns EXIT_SUCCESS its
\* collaborator was invoked during the call, except that ExtractFeatures
\* given a non-empty features_image_list_path naming a file without lines
\* returns EXIT_SUCCESS without creating or starting the feature extractor.
C2_Amended ==
    (Returned /\ op \in HeaderOperations /\ ret = EXIT_SUCCESS)
        => (CollaboratorInvoked <=> ~EmptyImageList)

\* ExtractFeatures returned EXIT_SUCCESS for an empty image list
C2_Witness ==
    /\ Returned
    /\ ret = EXIT_SUCCESS
    /\ EmptyImageList
    /\ ~HasCall({"SiftFeatureExtractor"})
    /\ numStarts = 0

-----------------------------------------------------------------------------
SixTypes == [bin     |-> "WriteBinary",
             txt     |-> "WriteText",
             nvm     |-> "ExportNVM",
             bundler |-> "ExportBundler",
             vrml    |-> "ExportVRML",
             ply     |-> "ExportPLY"]

TypeName == [bin     |-> <<"b","i","n">>,
             txt     |-> <<"t","x","t">>,
             nvm     |-> <<"n","v","m">>,
             bundler |-> <<"b","u","n","d","l","e","r">>,
             vrml    |-> <<"v","r","m","l">>,
             ply     |-> <<"p","l","y">>]

\* C3: for each of the six output types, in any letter case, ConvertModel
\* invokes exactly one exporter, the one of that type, on the reconstruction
\* read from converter_input_path, and returns EXIT_SUCCESS; for every other
\* string it invokes no exporter and returns EXIT_FAILURE.
C3_FormatDispatch ==
    (Returned /\ op = "ConvertModel") =>
        /\ \A t \in DOMAIN SixTypes :
              CaseVariant(opts.converter_output_type, TypeName[t]) =>
                  /\ ret = EXIT_SUCCESS
                  /\ NumCalls(Exporters) = 1
                  /\ \E i \in 1..Len(calls) :
                        /\ calls[i].fn = SixTypes[t]
                        /\ calls[i].reconstruction = opts.converter_input_path
        /\ (\A t \in DOMAIN SixTypes :
               ~CaseVariant(opts.converter_output_type, TypeName[t])) =>
                  /\ ret = EXIT_FAILURE
                  /\ NumCalls(Exporters) = 0

\* ConvertModel exported VRML for an output type in mixed case
C3_Witness ==
    /\ Returned
    /\ op = "ConvertModel"
    /\ opts.converter_output_type = <<"V","r","m","L">>
    /\ ret = EXIT_SUCCESS
    /\ HasCall({"ExportVRML"})

-----------------------------------------------------------------------------
\* Values a collaborator gets when the option that would set them is absent
DeclaredDefault == [image_list |-> <<>>, image_names |-> {}]

\* The value handed over is the value read for its key, or the default
PassedThrough(c, i) ==
    IF c.keys[i] \in DOMAIN opts
    THEN c.args[i] = opts[c.keys[i]]
    ELSE c.args[i] = DeclaredDefault[c.keys[i]]

\* C4 as stated: every value handed to a collaborator is exactly the value
\* read for its key (or its declared default).
C4_Original ==
    \A n \in 1..Len(calls) :
        \A i \in 1..Len(calls[n].args) : PassedThrough(calls[n], i)

LowerCasedKeys == {"dense_workspace_format", "workspace_format", "input_type"}

\* p up to, and without, its last '.'; all of p when it has none
CutAtLastDot(b, p) ==
    IF \A k \in 1..Len(p) : p[k] # "."
    THEN b = p
    ELSE \E k \in 1..Len(p) :
            /\ p[k] = "."
            /\ \A j \in (k+1)..Len(p) : p[j] # "."
            /\ b = SubSeq(p, 1, k-1)

\* The value handed over is the one the amended claim allows for its key
Derived(c, i) ==
    LET key == c.keys[i]
        arg == c.args[i]
    IN  CASE key \in LowerCasedKeys -> IsLowerCased(arg, opts[key])
          [] key = "image_list" ->
                 arg = IF opts.features_image_list_path = "" THEN <<>>
                       ELSE TextFiles[opts.features_image_list_path]
          [] key = "image_names" ->
                 arg = IF opts.mapper_image_list_path = "" THEN {}
                       ELSE Range(TextFiles[opts.mapper_image_list_path])
          [] key = "converter_output_path" /\ c.fn = "ExportBundler" ->
                 arg = opts[key] \o (IF i = 1 THEN BundleOutSuffix ELSE ListTxtSuffix)
          [] key = "converter_output_path" /\ c.fn = "ExportVRML" ->
                 \E b \in {SubSeq(opts[key], 1, k) : k \in 0..Len(opts[key])} :
                    /\ CutAtLastDot(b, opts[key])
                    /\ arg = b \o (IF i = 1 THEN ImagesWrlSuffix ELSE PointsWrlSuffix)
          [] key = "dense_output_path" /\ c.fn = "WritePointsVisibility" ->
                 arg = opts[key] \o VisSuffix
          [] key = "mapper_output_path" /\ c.fn = "OptionManager.Write" ->
                 \E n \in 0..9 :
                    arg = opts[key] \o <<DecimalDigits[n + 1], "project.ini">>
          [] key = "mapper_output_path" /\ c.fn = "Reconstruction.Write"
                                        /\ hasCallback ->
                 \E n \in 0..9 : arg = opts[key] \o <<DecimalDigits[n + 1]>>
          [] OTHER -> arg = opts[key]

\* C4 as amended: every value handed to a collaborator is the value read for
\* its key, unchanged, except that (a) dense_workspace_format,
\* workspace_format and input_type are handed over lower-cased, (b) output
\* file names are derived from the output path that was read (Bundler: the
\* path plus ".bundle.out" and plus ".list.txt"; VRML: the path cut at its
\* last '.' plus ".images.wrl" and plus ".points3D.wrl"; StereoFuser's
\* visibility file: the path plus ".vis"; the mapper callback: the
\* sub-directory of mapper_output_path named by the reconstruction's index,
\* and project.ini in it), and (c) an image list is the lines of the file
\* that the list path option names, not the option value.
C4_Amended ==
    \A n \in 1..Len(calls) :
        \A i \in 1..Len(calls[n].args) : Derived(calls[n], i)

\* StereoFuser returned after handing over a format read in upper case and
\* writing the visibility file
C4_Witness ==
    /\ Returned
    /\ op = "StereoFuser"
    /\ opts.workspace_format = <<"C","O","L","M","A","P">>
    /\ HasCall({"StereoFusion"})
    /\ HasCall({"WritePointsVisibility"})

-----------------------------------------------------------------------------
\* The directories ReconstructSparse was given do not allow a run
BadMapperPaths ==
    \/ opts.mapper_output_path \notin fs0
    \/ (opts.mapper_input_path # <<>> /\ opts.mapper_input_path \notin fs0)

\* C5: ReconstructSparse returns EXIT_FAILURE, never having started the
\* mapper nor written a reconstruction, whenever mapper_output_path is not an
\* existing directory or mapper_input_path is non-empty and not an existing
\* directory; in every other case the mapper is started and the call returns
\* EXIT_SUCCESS.
C5_ReconstructSparsePaths ==
    op = "ReconstructSparse" =>
        IF BadMapperPaths
        THEN /\ numStarts = 0
             /\ ~HasCall({"Reconstruction.Write"})
             /\ Returned
             /\ ret = EXIT_FAILURE
        ELSE /\ pc \notin {"idle", "rs_start"} => numStarts = 1
             /\ Returned => ret = EXIT_SUCCESS

\* ReconstructSparse failed on an input path that is no directory although
\* the output directory exists
C5_Witness ==
    /\ Returned
    /\ op = "ReconstructSparse"
    /\ opts.mapper_output_path \in fs0
    /\ opts.mapper_input_path # <<>>
    /\ opts.mapper_input_path \notin fs0
    /\ ret = EXIT_FAILURE

-----------------------------------------------------------------------------
\* The camera model does not exist, or a non-empty parameter list fails its
\* verification
BadCamera ==
    \/ ~ExistsCameraModelWithName(opts.camera_model)
    \/ /\ Len(CSVToVector(opts.camera_params)) > 0
       /\ ~CameraModelVerifyParams(opts.camera_model, CSVToVector(opts.camera_params))

\* C6 as stated: with a bad camera ExtractFeatures returns EXIT_FAILURE and
\* never starts the extractor, whatever features_image_list_path is; an empty
\* parameter list is accepted for any existing model.
C6_Original ==
    op = "ExtractFeatures" =>
        /\ BadCamera => /\ numStarts = 0
                        /\ Returned => ret = EXIT_FAILURE
        /\ (/\ ExistsCameraModelWithName(opts.camera_model)
            /\ CSVToVector(opts.camera_params) = <<>>
            /\ Returned) => ret = EXIT_SUCCESS

\* C6 as amended: with a bad camera ExtractFeatures never starts the
\* extractor, and returns EXIT_FAILURE unless features_image_list_path is
\* non-empty and names a file without lines, in which case it returns
\* EXIT_SUCCESS before the camera is looked at; an empty parameter list is
\* accepted for any existing model.
C6_Amended ==
    op = "ExtractFeatures" =>
        /\ BadCamera =>
              /\ numStarts = 0
              /\ ~HasCall({"SiftFeatureExtractor"})
              /\ Returned
              /\ ret = IF EmptyImageList THEN EXIT_SUCCESS ELSE EXIT_FAILURE
        /\ (/\ ExistsCameraModelWithName(opts.camera_model)
            /\ CSVToVector(opts.camera_params) = <<>>) =>
              /\ Returned => ret = EXIT_SUCCESS
              /\ (Returned /\ ~EmptyImageList) => numStarts = 1

\* ExtractFeatures returned EXIT_SUCCESS for a camera model that does not
\* exist, the image list being empty
C6_Witness ==
    /\ Returned
    /\ op = "ExtractFeatures"
    /\ ~ExistsCameraModelWithName(opts.camera_model)
    /\ EmptyImageList
    /\ ret = EXIT_SUCCESS

-----------------------------------------------------------------------------
InvalidUndistorterType ==
    opts.undistorter_output_type \notin {"COLMAP", "PMVS", "CMP-MVS"}

\* C7 as stated: UndistortImages with an output type that is none of
\* 'COLMAP', 'PMVS', 'CMP-MVS' returns EXIT_FAILURE having started no
\* undistorter and having left the filesystem unchanged.
C7_Original ==
    (op = "UndistortImages" /\ InvalidUndistorterType) =>
        /\ Returned
        /\ ret = EXIT_FAILURE
        /\ numStarts = 0
        /\ ~HasCall(Undistorters)
        /\ fs = fs0

\* C7 as amended: UndistortImages with an output type that is none of
\* 'COLMAP', 'PMVS', 'CMP-MVS' returns EXIT_FAILURE having started no
\* undistorter; by then it has created undistorter_output_path if that
\* directory did not exist, and changed nothing else in the filesystem.
C7_Amended ==
    (op = "UndistortImages" /\ InvalidUndistorterType) =>
        /\ Returned
        /\ ret = EXIT_FAILURE
        /\ numStarts = 0
        /\ ~HasCall(Undistorters)
        /\ fs = fs0 \cup {opts.undistorter_output_path}

\* UndistortImages failed on a lower-case output type and left behind the
\* output directory it created
C7_Witness ==
    /\ Returned
    /\ op = "UndistortImages"
    /\ opts.undistorter_output_type = "colmap"
    /\ ret = EXIT_FAILURE
    /\ opts.undistorter_output_path \notin fs0
    /\ opts.undistorter_output_path \in fs

-----------------------------------------------------------------------------
\* C8: in ReconstructSparse the calling thread touches the state it shares
\* with the mapper's callback only before mapper.Start() or after
\* mapper.Wait() has returned: while the mapper runs or its callback
\* executes the calling thread sits in Wait(), it never made an access
\* while the mapper ran, and the callback does not run once the operation
\* has returned.
C8_NoInterleaving ==
    op = "ReconstructSparse" =>
        /\ ~unsyncAccess
        /\ (worker = "running" \/ cbActive) => pc = "rs_wait"
        /\ cbActive => (worker = "running" /\ hasCallback)
        /\ Returned => (~cbActive /\ worker # "running")

\* ReconstructSparse returned after its callback wrote a reconstruction and
\* the calling thread read the manager again
C8_Witness ==
    /\ Returned
    /\ op = "ReconstructSparse"
    /\ hasCallback
    /\ prev_num_reconstructions >= 1
    /\ HasCall({"Reconstruction.Write"})
    /\ worker = "finished"

====
